---- MODULE Spec2Model ----
(***************************************************************************)
(* Model of mbf_abstract_nav::AbstractPluginManager<PluginType>            *)
(* (abstract_plugin_manager.tcc): the plugin registry with its three      *)
(* containers plugins_, plugins_type_ and names_, the operations           *)
(* loadPlugins, clearPlugins and the read accessors.  The configuration    *)
(* (parameter list and <name>.type parameters) is state of the node that   *)
(* the environment may change between calls; the answers of the two        *)
(* callbacks loadPlugin_ / initPlugin_ are drawn anew for every call.      *)
(* SpecSteps takes loadPlugins and clearPlugins one statement at a time    *)
(* next to a reader; SpecSim models mbf_test_utility::RobotSimulator       *)
(* (robot_simulator.cpp) on a discrete clock and a discrete planar pose.   *)
(***************************************************************************)
EXTENDS Integers, Sequences, FiniteSets, TLC

\* ---------------------------------------------------------------- bounds
MaxLen == 2          \* longest configured name list
NumInst == 2         \* distinct plugin instances the factory can hand out

Names == {"p1", "p2"}
Types == {"tA", "tB"}
NullPtr == 0
Ptrs == 1 .. NumInst

\* Name lists the parameter param_name_ can hold (duplicates possible).
NameLists == UNION {[1 .. n -> Names] : n \in 0 .. MaxLen}

\* What loadPlugin_(type) and initPlugin_(name, ptr) answer for one
\* iteration of the loop; initPlugin_ is not asked after a null pointer.
Outcomes == {[ptr |-> NullPtr, init |-> FALSE]} \cup [ptr : Ptrs, init : BOOLEAN]

\* The answer recorded for an iteration the loop never reached.
NotAsked == [ptr |-> NullPtr, init |-> FALSE]

VARIABLES plugins_, plugins_type_, names_, param_list, param_type, last, crashed,
          frame, sim

vars == <<plugins_, plugins_type_, names_, param_list, param_type, last, crashed, frame, sim>>

\* ------------------------------------------------------------ containers
EmptyMap == [n \in {} |-> NullPtr]

\* std::map::insert: no effect when the key is already present.
MapInsert(m, k, v) == IF k \in DOMAIN m THEN m ELSE (k :> v) @@ m

Range(s) == {s[i] : i \in DOMAIN s}

\* The three containers as one value.
Registry == [plugins_ |-> plugins_, plugins_type_ |-> plugins_type_, names_ |-> names_]

EmptyRegistry == [plugins_ |-> EmptyMap, plugins_type_ |-> EmptyMap, names_ |-> <<>>]

\* Record of the call that has just returned to the caller: its name, its
\* argument, the registry before it, its return value, the callback
\* answers it consumed and the callbacks it invoked, in order.  The caller
\* issues the next call after it has taken the result (op = "idle").
\* cleared tells whether clearPlugins ran with no loadPlugins since
\* ("pending"), or whether this call is the first loadPlugins after a
\* clearPlugins ("first").
NoCall == [op |-> "constructor", outc |-> <<>>, arg |-> "", pre |-> EmptyRegistry,
           ret |-> FALSE, log |-> <<>>, cleared |-> "no"]

CallRecord(op, arg, ret) ==
  [NoCall EXCEPT !.op = op, !.arg = arg, !.ret = ret, !.pre = Registry,
                 !.cleared = IF last.cleared = "pending" THEN "pending" ELSE "no"]

\* The control state of a loadPlugins or clearPlugins that is followed
\* statement by statement: the operation, the next statement, the local
\* copy plugin_param_list, the loop position and the loop's locals.
NoFrame == [op |-> "none", pc |-> "", list |-> <<>>, i |-> 0, name |-> "", type |-> "",
            plugin_ptr |-> NullPtr]

\* The robot simulator is a separate node; here it is not running.
SimAbsent == [running |-> FALSE]

\* The caller is between two calls.
Idle == ~crashed /\ last.op \in {"constructor", "idle"}

\* The caller takes the result of the call that returned.
resume ==
  /\ ~crashed
  /\ last.op \notin {"constructor", "idle"}
  /\ last' = CallRecord("idle", "", FALSE)
  /\ UNCHANGED <<plugins_, plugins_type_, names_, param_list, param_type, crashed, frame, sim>>

\* ----------------------------------------------------------- loadPlugins
\* One callback invocation (or the duplicate abort) as a log entry.
Event(kind, pos, name, type, ptr, ok) ==
  [kind |-> kind, pos |-> pos, name |-> name, type |-> type, ptr |-> ptr, ok |-> ok]

\* The frame of a running loadPlugins: the three containers, the value it
\* is going to return and the callback log.
Frame(reg) ==
  [plugins_ |-> reg.plugins_, plugins_type_ |-> reg.plugins_type_,
   names_ |-> reg.names_, ret |-> FALSE, log |-> <<>>]

\* Early return for an empty name list (lines 85-90).
EmptyListResult_FallThrough(fr) ==
  [fr EXCEPT !.ret = (DOMAIN fr.plugins_ # {})]

EmptyListResult(fr) == [fr EXCEPT !.ret = FALSE]

\* The duplicate test plugins_.find(name) != plugins_.end() (line 95).
AlreadyLoaded_Never(fr, name) == FALSE

AlreadyLoaded(fr, name) == name \in DOMAIN fr.plugins_

\* The abort on a duplicate (lines 96-100): nothing is undone.
DuplicateAbort_NonEmpty(fr, i, name) ==
  [fr EXCEPT !.ret = (DOMAIN fr.plugins_ # {}),
             !.log = Append(@, Event("duplicate", i, name, "", NullPtr, FALSE))]

DuplicateAbort_Rollback(fr, i, name) ==
  [fr EXCEPT !.ret = FALSE, !.plugins_ = EmptyMap, !.plugins_type_ = EmptyMap,
             !.names_ = <<>>,
             !.log = Append(@, Event("duplicate", i, name, "", NullPtr, FALSE))]

DuplicateAbort(fr, i, name) ==
  [fr EXCEPT !.ret = FALSE,
             !.log = Append(@, Event("duplicate", i, name, "", NullPtr, FALSE))]

\* Body of the success branch: the three insertions (lines 109-113).
Admit_PushFront(fr, name, type, plugin_ptr) ==
  [fr EXCEPT !.plugins_ = MapInsert(@, name, plugin_ptr),
             !.plugins_type_ = MapInsert(@, name, type),
             !.names_ = <<name>> \o @]

Admit_NullPtr(fr, name, type, plugin_ptr) ==
  [fr EXCEPT !.plugins_ = MapInsert(@, name, NullPtr),
             !.plugins_type_ = MapInsert(@, name, type),
             !.names_ = Append(@, name)]

Admit_Replace(fr, name, type, plugin_ptr) ==
  [fr EXCEPT !.plugins_ = (name :> plugin_ptr),
             !.plugins_type_ = (name :> type),
             !.names_ = <<name>>]

Admit_NoType(fr, name, type, plugin_ptr) ==
  [fr EXCEPT !.plugins_ = MapInsert(@, name, plugin_ptr),
             !.names_ = Append(@, name)]

Admit(fr, name, type, plugin_ptr) ==
  [fr EXCEPT !.plugins_ = MapInsert(@, name, plugin_ptr),
             !.plugins_type_ = MapInsert(@, name, type),
             !.names_ = Append(@, name)]

\* The return value after the loop ran to its end (line 127).
LoopResult_Inverted(fr) ==
  [fr EXCEPT !.ret = (IF DOMAIN fr.plugins_ = {} THEN TRUE ELSE FALSE)]

LoopResult_True(fr) == [fr EXCEPT !.ret = TRUE]

LoopResult(fr) ==
  [fr EXCEPT !.ret = (IF DOMAIN fr.plugins_ = {} THEN FALSE ELSE TRUE)]

\* The loop with a break after a failed name.
RECURSIVE LoadLoop_BreakOnFailure(_, _, _, _, _)
LoadLoop_BreakOnFailure(fr, cfg, typ, outc, i) ==
  IF i > Len(cfg)
  THEN LoopResult(fr)
  ELSE LET name == cfg[i] IN
       IF AlreadyLoaded(fr, name)
       THEN DuplicateAbort(fr, i, name)
       ELSE LET type == typ[name]
                plugin_ptr == outc[i].ptr
                f1 == [fr EXCEPT !.log = Append(@, Event("loadPlugin", i, name, type, plugin_ptr,
                                                         plugin_ptr # NullPtr))]
            IN  IF plugin_ptr # NullPtr
                THEN LET f2 == [f1 EXCEPT !.log = Append(@, Event("initPlugin", i, name, type,
                                                                  plugin_ptr, outc[i].init))]
                     IN  IF outc[i].init
                         THEN LoadLoop_BreakOnFailure(Admit(f2, name, type, plugin_ptr),
                                                      cfg, typ, outc, i + 1)
                         ELSE LoopResult(f2)
                ELSE LoopResult(f1)

\* The loop with the initializer called whatever the factory returned.
RECURSIVE LoadLoop_InitAlways(_, _, _, _, _)
LoadLoop_InitAlways(fr, cfg, typ, outc, i) ==
  IF i > Len(cfg)
  THEN LoopResult(fr)
  ELSE LET name == cfg[i] IN
       IF AlreadyLoaded(fr, name)
       THEN DuplicateAbort(fr, i, name)
       ELSE LET type == typ[name]
                plugin_ptr == outc[i].ptr
                f1 == [fr EXCEPT !.log = Append(@, Event("loadPlugin", i, name, type, plugin_ptr,
                                                         plugin_ptr # NullPtr))]
                f2 == [f1 EXCEPT !.log = Append(@, Event("initPlugin", i, name, type,
                                                         plugin_ptr, outc[i].init))]
            IN  IF outc[i].init /\ plugin_ptr # NullPtr
                THEN LoadLoop_InitAlways(Admit(f2, name, type, plugin_ptr), cfg, typ, outc, i + 1)
                ELSE LoadLoop_InitAlways(f2, cfg, typ, outc, i + 1)

\* The for loop of loadPlugins from iteration i on (lines 92-124).
RECURSIVE LoadLoop(_, _, _, _, _)
LoadLoop(fr, cfg, typ, outc, i) ==
  IF i > Len(cfg)
  THEN LoopResult(fr)
  ELSE LET name == cfg[i] IN
       IF AlreadyLoaded(fr, name)
       THEN DuplicateAbort(fr, i, name)
       ELSE LET type == typ[name]
                plugin_ptr == outc[i].ptr
                f1 == [fr EXCEPT !.log = Append(@, Event("loadPlugin", i, name, type, plugin_ptr,
                                                         plugin_ptr # NullPtr))]
            IN  IF plugin_ptr # NullPtr
                THEN LET f2 == [f1 EXCEPT !.log = Append(@, Event("initPlugin", i, name, type,
                                                                  plugin_ptr, outc[i].init))]
                     IN  IF outc[i].init
                         THEN LoadLoop(Admit(f2, name, type, plugin_ptr), cfg, typ, outc, i + 1)
                         ELSE LoadLoop(f2, cfg, typ, outc, i + 1)
                ELSE LoadLoop(f1, cfg, typ, outc, i + 1)

\* loadPlugins() on registry reg with the configuration (cfg, typ) and the
\* callback answers outc.
LoadPluginsOn(reg, cfg, typ, outc) ==
  IF cfg = <<>> THEN EmptyListResult(Frame(reg)) ELSE LoadLoop(Frame(reg), cfg, typ, outc, 1)

\* The callback answers as far as the call consumed them.
Consumed(outc, log) ==
  [i \in DOMAIN outc |->
     IF \E k \in DOMAIN log : log[k].pos = i /\ log[k].kind = "loadPlugin"
     THEN (IF outc[i].ptr = NullPtr THEN NotAsked ELSE outc[i])
     ELSE NotAsked]

loadPlugins ==
  /\ Idle
  /\ \E outc \in [1 .. Len(param_list) -> Outcomes] :
       LET r == LoadPluginsOn(Registry, param_list, param_type, outc) IN
       /\ plugins_' = r.plugins_
       /\ plugins_type_' = r.plugins_type_
       /\ names_' = r.names_
       /\ last' = [NoCall EXCEPT !.op = "loadPlugins", !.outc = Consumed(outc, r.log),
                                 !.pre = Registry, !.ret = r.ret, !.log = r.log,
                                 !.cleared = IF last.cleared = "pending" THEN "first" ELSE "no"]
  /\ UNCHANGED <<param_list, param_type, crashed, frame, sim>>

\* ---------------------------------------------------------- clearPlugins
\* The three clear() calls (lines 169-171).
Cleared_KeepsPlugins(reg) ==
  [plugins_ |-> reg.plugins_, plugins_type_ |-> EmptyMap, names_ |-> <<>>]

Cleared(reg) == [plugins_ |-> EmptyMap, plugins_type_ |-> EmptyMap, names_ |-> <<>>]

clearPlugins ==
  /\ Idle
  /\ plugins_' = Cleared(Registry).plugins_
  /\ plugins_type_' = Cleared(Registry).plugins_type_
  /\ names_' = Cleared(Registry).names_
  /\ last' = [NoCall EXCEPT !.op = "clearPlugins", !.pre = Registry, !.cleared = "pending"]
  /\ UNCHANGED <<param_list, param_type, crashed, frame, sim>>

\* ------------------------------------------------------------- accessors
getLoadedNamesOf(reg) == reg.names_

\* plugins_.count(name) converted to bool (line 139).
hasPluginOf(reg, name) == Cardinality({k \in DOMAIN reg.plugins_ : k = name}) # 0

\* find() and the null pointer for a miss (lines 153-164).
getPluginOf(reg, name) ==
  IF name \in DOMAIN reg.plugins_ THEN reg.plugins_[name] ELSE NullPtr

getLoadedNames ==
  /\ Idle
  /\ last' = CallRecord("getLoadedNames", "", getLoadedNamesOf(Registry))
  /\ UNCHANGED <<plugins_, plugins_type_, names_, param_list, param_type, crashed, frame, sim>>

hasPlugin ==
  /\ Idle
  /\ \E name \in Names : last' = CallRecord("hasPlugin", name, hasPluginOf(Registry, name))
  /\ UNCHANGED <<plugins_, plugins_type_, names_, param_list, param_type, crashed, frame, sim>>

\* A lookup through operator[], which creates a missing entry.
getPlugin_Creates ==
  /\ Idle
  /\ \E name \in Names :
       /\ last' = CallRecord("getPlugin", name, getPluginOf(Registry, name))
       /\ plugins_' = MapInsert(plugins_, name, NullPtr)
  /\ UNCHANGED <<plugins_type_, names_, param_list, param_type, crashed, frame, sim>>

getPlugin ==
  /\ Idle
  /\ \E name \in Names : last' = CallRecord("getPlugin", name, getPluginOf(Registry, name))
  /\ UNCHANGED <<plugins_, plugins_type_, names_, param_list, param_type, crashed, frame, sim>>

\* getType dereferences the result of find() unchecked (lines 145-146): for
\* a name that is not a key the read is undefined; it yields some string
\* or ends the process.
GarbageStrings == Types \cup {""}

\* A getType that reads the <name>.type parameter again.
getType_FromConfig ==
  /\ Idle
  /\ \E name \in Names : last' = CallRecord("getType", name, param_type[name])
  /\ UNCHANGED <<plugins_, plugins_type_, names_, param_list, param_type, crashed, frame, sim>>

getType ==
  /\ Idle
  /\ \E name \in Names :
       IF name \in DOMAIN plugins_type_
       THEN /\ last' = CallRecord("getType", name, plugins_type_[name])
            /\ UNCHANGED crashed
       ELSE \/ /\ \E g \in GarbageStrings : last' = CallRecord("getType", name, g)
               /\ UNCHANGED crashed
            \/ /\ last' = CallRecord("getType", name, "")
               /\ crashed' = TRUE
  /\ UNCHANGED <<plugins_, plugins_type_, names_, param_list, param_type, frame, sim>>

\* ------------------------------------------------------------ environment
\* The node's parameters are set from outside between calls of the
\* manager: either the name list param_name_ or one <name>.type.
set_parameters ==
  /\ Idle
  /\ \/ /\ \E l \in NameLists : l # param_list /\ param_list' = l
        /\ UNCHANGED param_type
     \/ /\ \E n \in Names, t \in Types :
             t # param_type[n] /\ param_type' = [param_type EXCEPT ![n] = t]
        /\ UNCHANGED param_list
  /\ last' = CallRecord("set_parameters", "", FALSE)
  /\ UNCHANGED <<plugins_, plugins_type_, names_, crashed, frame, sim>>

\* ---------------------------------------------------------- specification
Init ==
  /\ plugins_ = EmptyMap
  /\ plugins_type_ = EmptyMap
  /\ names_ = <<>>
  /\ param_list \in NameLists
  /\ param_type \in [Names -> Types]
  /\ last = NoCall
  /\ crashed = FALSE
  /\ frame = NoFrame
  /\ sim = SimAbsent

Next ==
  \/ loadPlugins
  \/ clearPlugins
  \/ getLoadedNames
  \/ hasPlugin
  \/ getPlugin
  \/ getType
  \/ set_parameters
  \/ resume

Spec == Init /\ [][Next]_vars

\* ------------------------------------------- statement by statement
\* loadPlugins and clearPlugins followed one statement at a time, with a
\* second thread that reads the registry in between (hasPlugin, then
\* getType of a name it found).  last holds the reader's last result.

\* loadPlugins is called: the name list is copied and tested (lines 82-90).
step_load_begin ==
  /\ ~crashed /\ frame.op = "none"
  /\ frame' = IF param_list = <<>> THEN NoFrame
              ELSE [NoFrame EXCEPT !.op = "loadPlugins", !.pc = "loop",
                                   !.list = param_list, !.i = 1]
  /\ UNCHANGED <<plugins_, plugins_type_, names_, param_list, param_type, last, crashed, sim>>

\* Loop head and duplicate test (lines 92-100), or the return of line 127.
step_load_next ==
  /\ ~crashed /\ frame.op = "loadPlugins" /\ frame.pc = "loop"
  /\ frame' = IF frame.i > Len(frame.list) THEN NoFrame
              ELSE IF AlreadyLoaded(Registry, frame.list[frame.i]) THEN NoFrame
              ELSE [frame EXCEPT !.name = frame.list[frame.i], !.pc = "get_type"]
  /\ UNCHANGED <<plugins_, plugins_type_, names_, param_list, param_type, last, crashed, sim>>

\* The type parameter is read (lines 102-103).
step_load_get_type ==
  /\ ~crashed /\ frame.op = "loadPlugins" /\ frame.pc = "get_type"
  /\ frame' = [frame EXCEPT !.type = param_type[frame.name], !.pc = "callbacks"]
  /\ UNCHANGED <<plugins_, plugins_type_, names_, param_list, param_type, last, crashed, sim>>

\* Factory and initializer (lines 105-106); a failure goes on with the
\* next name (lines 119-124).
step_load_callbacks ==
  /\ ~crashed /\ frame.op = "loadPlugins" /\ frame.pc = "callbacks"
  /\ \E o \in Outcomes :
       frame' = IF o.ptr # NullPtr /\ o.init
                THEN [frame EXCEPT !.plugin_ptr = o.ptr, !.pc = "insert_plugin"]
                ELSE [frame EXCEPT !.i = @ + 1, !.pc = "loop", !.name = "", !.type = ""]
  /\ UNCHANGED <<plugins_, plugins_type_, names_, param_list, param_type, last, crashed, sim>>

\* plugins_.insert (lines 109-110).
step_load_insert_plugin ==
  /\ ~crashed /\ frame.op = "loadPlugins" /\ frame.pc = "insert_plugin"
  /\ plugins_' = MapInsert(plugins_, frame.name, frame.plugin_ptr)
  /\ frame' = [frame EXCEPT !.pc = "insert_type"]
  /\ UNCHANGED <<plugins_type_, names_, param_list, param_type, last, crashed, sim>>

\* plugins_type_.insert (line 112).
step_load_insert_type ==
  /\ ~crashed /\ frame.op = "loadPlugins" /\ frame.pc = "insert_type"
  /\ plugins_type_' = MapInsert(plugins_type_, frame.name, frame.type)
  /\ frame' = [frame EXCEPT !.pc = "push_name"]
  /\ UNCHANGED <<plugins_, names_, param_list, param_type, last, crashed, sim>>

\* names_.push_back (line 113) and the end of the iteration.
step_load_push_name ==
  /\ ~crashed /\ frame.op = "loadPlugins" /\ frame.pc = "push_name"
  /\ names_' = Append(names_, frame.name)
  /\ frame' = [frame EXCEPT !.i = @ + 1, !.pc = "loop", !.name = "", !.type = "",
                            !.plugin_ptr = NullPtr]
  /\ UNCHANGED <<plugins_, plugins_type_, param_list, param_type, last, crashed, sim>>

\* The registry after statement k of clearPlugins (lines 169, 170, 171).
ClearStep_TypesFirst(reg, k) ==
  IF k = 1 THEN [reg EXCEPT !.plugins_type_ = EmptyMap]
  ELSE IF k = 2 THEN [reg EXCEPT !.plugins_ = EmptyMap]
  ELSE [reg EXCEPT !.names_ = <<>>]

ClearStep(reg, k) ==
  IF k = 1 THEN [reg EXCEPT !.plugins_ = EmptyMap]
  ELSE IF k = 2 THEN [reg EXCEPT !.plugins_type_ = EmptyMap]
  ELSE [reg EXCEPT !.names_ = <<>>]

\* clearPlugins is called.
step_clear_begin ==
  /\ ~crashed /\ frame.op = "none"
  /\ frame' = [NoFrame EXCEPT !.op = "clearPlugins", !.pc = "clear", !.i = 1]
  /\ UNCHANGED <<plugins_, plugins_type_, names_, param_list, param_type, last, crashed, sim>>

\* The next clear() statement; the third one ends the call.
step_clear_statement ==
  /\ ~crashed /\ frame.op = "clearPlugins"
  /\ plugins_' = ClearStep(Registry, frame.i).plugins_
  /\ plugins_type_' = ClearStep(Registry, frame.i).plugins_type_
  /\ names_' = ClearStep(Registry, frame.i).names_
  /\ frame' = IF frame.i = 3 THEN NoFrame ELSE [frame EXCEPT !.i = @ + 1]
  /\ UNCHANGED <<param_list, param_type, last, crashed, sim>>

\* The reader asks hasPlugin(name).
step_reader_hasPlugin ==
  /\ ~crashed
  /\ \E name \in Names :
       last' = [NoCall EXCEPT !.op = "hasPlugin", !.arg = name,
                              !.ret = hasPluginOf(Registry, name)]
  /\ UNCHANGED <<plugins_, plugins_type_, names_, param_list, param_type, crashed, frame, sim>>

\* The reader asks getType of the name hasPlugin has just confirmed; for a
\* name that is no key of plugins_type_ the read is undefined.
step_reader_getType ==
  /\ ~crashed
  /\ last.op = "hasPlugin" /\ last.ret = TRUE
  /\ IF last.arg \in DOMAIN plugins_type_
     THEN /\ last' = [NoCall EXCEPT !.op = "getType", !.arg = last.arg,
                                    !.ret = plugins_type_[last.arg]]
          /\ UNCHANGED crashed
     ELSE \/ /\ \E g \in GarbageStrings :
                  last' = [NoCall EXCEPT !.op = "getType", !.arg = last.arg, !.ret = g]
             /\ UNCHANGED crashed
          \/ /\ last' = [NoCall EXCEPT !.op = "getType", !.arg = last.arg, !.ret = ""]
             /\ crashed' = TRUE
  /\ UNCHANGED <<plugins_, plugins_type_, names_, param_list, param_type, frame, sim>>

NextSteps ==
  \/ step_load_begin
  \/ step_load_next
  \/ step_load_get_type
  \/ step_load_callbacks
  \/ step_load_insert_plugin
  \/ step_load_insert_type
  \/ step_load_push_name
  \/ step_clear_begin
  \/ step_clear_statement
  \/ step_reader_hasPlugin
  \/ step_reader_getType

SpecSteps == Init /\ [][NextSteps]_vars

\* ------------------------------------------------------- RobotSimulator
\* Model of mbf_test_utility::RobotSimulator (robot_simulator.cpp).  Time
\* is counted in clock ticks; a pose is a planar position with a heading
\* in quarter turns, a twist is the forward speed linear.x (length per
\* tick) and the turn rate angular.z (quarter turns per tick), so that
\* the product of transforms is exact.
MaxTime == 2         \* last clock tick

Frames == {"odom", "base_link"}
Twists == [lin_x : {0, 1}, ang_z : {0, 1}]
ZeroTwist == [lin_x |-> 0, ang_z |-> 0]
IdentityTransform == [x |-> 0, y |-> 0, yaw |-> 0]
RequestTransforms == {[x |-> 2, y |-> 0, yaw |-> 0], [x |-> 0, y |-> 1, yaw |-> 1]}

\* tf2::Transform product a * b for planar poses.
Compose(a, b) ==
  [x |-> a.x + (IF a.yaw = 0 THEN b.x ELSE IF a.yaw = 1 THEN 0 - b.y
                ELSE IF a.yaw = 2 THEN 0 - b.x ELSE b.y),
   y |-> a.y + (IF a.yaw = 0 THEN b.y ELSE IF a.yaw = 1 THEN b.x
                ELSE IF a.yaw = 2 THEN 0 - b.y ELSE 0 - b.x),
   yaw |-> (a.yaw + b.yaw) % 4]

\* The motion of the robot frame over dt ticks at a constant twist
\* (lines 145-156).
Motion(twist, dt) == [x |-> twist.lin_x * dt, y |-> 0, yaw |-> (twist.ang_z * dt) % 4]

\* SetTestRobotState requests; the velocity part only counts with
\* set_velocity.
StateRequests ==
  {r \in [transform_frame : Frames, transform : RequestTransforms, set_velocity : BOOLEAN,
          velocity_frame : Frames, twist : Twists] :
     ~r.set_velocity => (r.velocity_frame = "base_link" /\ r.twist = ZeroTwist)}

VelocityMsgs == [frame_id : Frames, twist : Twists]

\* The simulator after construction (lines 42-66): the parameters as
\* declared, the pose at the origin, no velocity.  stuck_ticks counts the
\* ticks since the last pose update during which is_robot_stuck was true;
\* published is what the running callback has sent so far.
SimConstructed(stuck, parent, robot) ==
  [running |-> TRUE,
   clock |-> 0,
   config_ |-> [is_robot_stuck |-> stuck, parent_frame_id |-> parent, robot_frame_id |-> robot],
   trf_parent_robot_ |-> [stamp |-> 0, transform |-> IdentityTransform],
   current_velocity_ |-> ZeroTwist,
   stuck_ticks |-> 0,
   published |-> <<>>]

\* continuouslyUpdateRobotPose() at time t_now (lines 133-182).
ContinuouslyUpdateRobotPose(s, t_now) ==
  LET dt == t_now - s.trf_parent_robot_.stamp
      moved == Compose(s.trf_parent_robot_.transform, Motion(s.current_velocity_, dt))
      transform == IF s.config_.is_robot_stuck = FALSE THEN moved
                   ELSE s.trf_parent_robot_.transform
      odom == IF s.config_.is_robot_stuck = FALSE
              THEN [pose |-> moved, twist |-> s.current_velocity_]
              ELSE [pose |-> IdentityTransform, twist |-> ZeroTwist]
  IN  [s EXCEPT !.trf_parent_robot_ = [stamp |-> t_now, transform |-> transform],
                !.stuck_ticks = 0,
                !.published = Append(@, [stamp |-> t_now, transform |-> transform,
                                         odom |-> odom])]

\* velocityCallback(vel) at time t_now (lines 115-131).
VelocityCallbackOn_StoreFirst(s, vel, t_now) ==
  IF vel.frame_id # s.config_.robot_frame_id THEN s
  ELSE ContinuouslyUpdateRobotPose([s EXCEPT !.current_velocity_ = vel.twist], t_now)

VelocityCallbackOn_UpdateFirst(s, vel, t_now) ==
  LET u == ContinuouslyUpdateRobotPose(s, t_now) IN
  IF vel.frame_id # s.config_.robot_frame_id THEN u
  ELSE [u EXCEPT !.current_velocity_ = vel.twist]

VelocityCallbackOn(s, vel, t_now) ==
  IF vel.frame_id # s.config_.robot_frame_id THEN s
  ELSE [ContinuouslyUpdateRobotPose(s, t_now) EXCEPT !.current_velocity_ = vel.twist]

\* setStateCallback(request, response) (lines 85-113) with its two pose
\* updates at t1 and t2; the result is the simulator and the response.
SetStateCallbackOn(s, request, response, t1, t2) ==
  IF request.transform_frame # s.config_.parent_frame_id
  THEN [sim |-> s, response |-> [response EXCEPT !.success = FALSE], stored |-> FALSE]
  ELSE IF request.set_velocity /\ request.velocity_frame # s.config_.robot_frame_id
  THEN [sim |-> s, response |-> [response EXCEPT !.success = FALSE], stored |-> FALSE]
  ELSE LET u == ContinuouslyUpdateRobotPose(s, t1)
           v == IF request.set_velocity THEN [u EXCEPT !.current_velocity_ = request.twist]
                ELSE u
           w == [v EXCEPT !.trf_parent_robot_.transform = request.transform]
       IN  [sim |-> ContinuouslyUpdateRobotPose(w, t2), response |-> response,
            stored |-> TRUE]

\* The record of a simulator callback that has returned: the simulator
\* before it, its request and response, whether it stored the request,
\* and what it published.
SimCall(op, req, response, stored, after) ==
  [NoCall EXCEPT !.op = op] @@
  [sim_pre |-> sim, req |-> req, response |-> response, stored |-> stored,
   published |-> after.published]

\* What is left of the callback's result in the node.
Settled(after) == [after EXCEPT !.published = <<>>]

\* Time passes.
clock_tick ==
  /\ Idle /\ sim.running /\ sim.clock < MaxTime
  /\ sim' = [sim EXCEPT !.clock = @ + 1,
                        !.stuck_ticks = IF sim.config_.is_robot_stuck THEN @ + 1 ELSE @]
  /\ UNCHANGED <<plugins_, plugins_type_, names_, param_list, param_type, last, crashed, frame>>

\* The wall timer fires (lines 180-181).
continuouslyUpdateRobotPose ==
  /\ Idle /\ sim.running
  /\ LET r == ContinuouslyUpdateRobotPose(sim, sim.clock) IN
       /\ sim' = Settled(r)
       /\ last' = SimCall("continuouslyUpdateRobotPose", "", "", FALSE, r)
  /\ UNCHANGED <<plugins_, plugins_type_, names_, param_list, param_type, crashed, frame>>

velocityCallback ==
  /\ Idle /\ sim.running
  /\ \E vel \in VelocityMsgs :
       LET r == VelocityCallbackOn(sim, vel, sim.clock) IN
       /\ sim' = Settled(r)
       /\ last' = SimCall("velocityCallback", vel, "", FALSE, r)
  /\ UNCHANGED <<plugins_, plugins_type_, names_, param_list, param_type, crashed, frame>>

\* The response object arrives with success at its default false; the
\* clock may move on between the two pose updates of an accepted request.
setStateCallback ==
  /\ Idle /\ sim.running
  /\ \E request \in StateRequests, t2 \in {sim.clock, sim.clock + 1} :
       /\ t2 <= MaxTime
       /\ LET r == SetStateCallbackOn(sim, request, [success |-> FALSE], sim.clock, t2) IN
            /\ r.stored \/ t2 = sim.clock
            /\ sim' = [Settled(r.sim) EXCEPT !.clock = t2]
            /\ last' = SimCall("setStateCallback", request, r.response, r.stored, r.sim)
  /\ UNCHANGED <<plugins_, plugins_type_, names_, param_list, param_type, crashed, frame>>

\* setParametersCallback (lines 68-83) for one parameter.
setParametersCallback ==
  /\ Idle /\ sim.running
  /\ \/ \E b \in BOOLEAN :
          /\ b # sim.config_.is_robot_stuck
          /\ sim' = [sim EXCEPT !.config_.is_robot_stuck = b]
     \/ \E f \in Frames :
          /\ f # sim.config_.parent_frame_id
          /\ sim' = [sim EXCEPT !.config_.parent_frame_id = f]
     \/ \E f \in Frames :
          /\ f # sim.config_.robot_frame_id
          /\ sim' = [sim EXCEPT !.config_.robot_frame_id = f]
  /\ last' = SimCall("setParametersCallback", "", "", FALSE, sim)
  /\ UNCHANGED <<plugins_, plugins_type_, names_, param_list, param_type, crashed, frame>>

InitSim ==
  /\ plugins_ = EmptyMap
  /\ plugins_type_ = EmptyMap
  /\ names_ = <<>>
  /\ param_list = <<>>
  /\ param_type = [n \in Names |-> "tA"]
  /\ last = NoCall
  /\ crashed = FALSE
  /\ frame = NoFrame
  /\ \E stuck \in BOOLEAN, parent \in Frames, robot \in Frames :
       sim = SimConstructed(stuck, parent, robot)

NextSim ==
  \/ clock_tick
  \/ continuouslyUpdateRobotPose
  \/ velocityCallback
  \/ setStateCallback
  \/ setParametersCallback
  \/ resume

SpecSim == InitSim /\ [][NextSim]_vars

\* ================================================================ claims
\* Vocabulary for the record of the last call.
IsLoad == last.op = "loadPlugins"

\* Positions of the name list whose entry passed the initializer.
AdmittedPos == {last.log[k].pos : k \in {j \in DOMAIN last.log :
                                          last.log[j].kind = "initPlugin" /\ last.log[j].ok}}

\* Positions whose entry the factory or the initializer turned down.
FailedPos == {last.log[k].pos : k \in {j \in DOMAIN last.log :
                                        last.log[j].kind # "duplicate" /\ ~last.log[j].ok}}

\* The accepted (name, instance) log entries of the call, in call order.
IsAccept(e) == e.kind = "initPlugin" /\ e.ok
Accepts == SelectSeq(last.log, IsAccept)
AcceptedNames == [k \in DOMAIN Accepts |-> Accepts[k].name]

DuplicateHit == \E k \in DOMAIN last.log : last.log[k].kind = "duplicate"

CallbackCalls == {k \in DOMAIN last.log : last.log[k].kind \in {"loadPlugin", "initPlugin"}}

NoDup(seq) == \A i, j \in DOMAIN seq : i # j => seq[i] # seq[j]

\* The name list restricted to the positions in S, order kept.
RECURSIVE Restrict(_, _, _)
Restrict(l, S, i) ==
  IF i > Len(l) THEN <<>>
  ELSE (IF i \in S THEN <<l[i]>> ELSE <<>>) \o Restrict(l, S, i + 1)

\* Entries of registry a are entries of registry b, unchanged.
Preserved(a, b) ==
  \A n \in DOMAIN a.plugins_ :
    /\ n \in DOMAIN b.plugins_ /\ b.plugins_[n] = a.plugins_[n]
    /\ n \in DOMAIN b.plugins_type_ /\ b.plugins_type_[n] = a.plugins_type_[n]
    /\ n \in Range(b.names_)

\* ---- C1 -----------------------------------------------------------------
HasRepeat == \E i, j \in DOMAIN param_list : i < j /\ param_list[i] = param_list[j]

\* A name recurs after an occurrence that this call admitted.
RepeatOfAdmitted ==
  \E i, j \in DOMAIN param_list : i < j /\ param_list[i] = param_list[j] /\ i \in AdmittedPos

\* The callbacks gave one answer per name in this call.
OneAnswerPerName ==
  \A i, j \in DOMAIN param_list : param_list[i] = param_list[j] => last.outc[i] = last.outc[j]

\* C1 as stated: for every name list with a repeated name, whatever the
\* callbacks answer for each name, loadPlugins returns false and the names
\* admitted before the repeat are still registered.
C1_AsStated ==
  (IsLoad /\ HasRepeat /\ OneAnswerPerName) =>
     /\ last.ret = FALSE
     /\ \A k \in DOMAIN Accepts : Accepts[k].name \in DOMAIN plugins_

\* C1 amended: when a name recurs after an occurrence that was admitted in
\* this call, loadPlugins returns false at that recurrence (the duplicate
\* abort is the last thing it does) and every name admitted before it, in
\* this call or earlier, is still registered with its instance.
C1_RepeatOfAdmittedAborts ==
  (IsLoad /\ RepeatOfAdmitted) =>
     /\ last.ret = FALSE
     /\ last.log[Len(last.log)].kind = "duplicate"
     /\ \A k \in DOMAIN Accepts :
          /\ Accepts[k].name \in DOMAIN plugins_
          /\ plugins_[Accepts[k].name] = Accepts[k].ptr
          /\ Accepts[k].name \in Range(names_)
     /\ Preserved(last.pre, Registry)

C1_Witness ==
  /\ IsLoad /\ RepeatOfAdmitted /\ last.ret = FALSE
  /\ last.pre.names_ # <<>> /\ Len(names_) = 2

\* ---- C2 -----------------------------------------------------------------
\* C2 as stated: a call that admitted at least one name returns true.
C2_AsStated == (IsLoad /\ AdmittedPos # {}) => last.ret = TRUE

\* C2 amended: a call that admitted at least one name and was not aborted
\* by a duplicate returns true, whatever happened to the other names.
C2_AdmittedAndNotAbortedReturnsTrue ==
  (IsLoad /\ AdmittedPos # {} /\ ~DuplicateHit) => last.ret = TRUE

C2_Witness ==
  /\ IsLoad /\ AdmittedPos # {} /\ FailedPos # {} /\ ~DuplicateHit
  /\ last.pre = EmptyRegistry /\ last.ret = TRUE

\* ---- C3 -----------------------------------------------------------------
\* C3 as stated: loadPlugins returns true iff the registry is non-empty
\* when it returns.
C3_AsStated == IsLoad => (last.ret <=> DOMAIN plugins_ # {})

\* C3 amended: loadPlugins returns true iff the name list was non-empty,
\* the loop ran to its end without a duplicate abort, and the registry is
\* non-empty when it returns; after an empty list or a duplicate abort it
\* returns false even if the registry is non-empty.
C3_ReturnValue ==
  IsLoad => (last.ret <=> (param_list # <<>> /\ ~DuplicateHit /\ DOMAIN plugins_ # {}))

C3_Witness ==
  /\ IsLoad /\ last.ret = TRUE /\ AdmittedPos = {} /\ FailedPos # {}
  /\ DOMAIN plugins_ # {}

\* ---- C4 -----------------------------------------------------------------
\* C4: with an empty name list loadPlugins returns false, calls neither
\* callback and leaves the three containers as they were.
C4_EmptyListIsNoOp ==
  (IsLoad /\ param_list = <<>>) =>
     /\ last.ret = FALSE
     /\ last.log = <<>>
     /\ Registry = last.pre
     /\ (last.pre = EmptyRegistry => getLoadedNamesOf(Registry) = <<>>)

C4_Witness == IsLoad /\ param_list = <<>> /\ last.pre.names_ # <<>> /\ names_ # <<>>

\* ---- C5 -----------------------------------------------------------------
EveryNameFailed ==
  /\ param_list # <<>>
  /\ \A i \in DOMAIN param_list : last.outc[i].ptr = NullPtr \/ ~last.outc[i].init

\* C5: from an empty registry, when every configured name fails,
\* loadPlugins returns false and the registry is still empty.
C5_AllFailedFromEmpty ==
  (IsLoad /\ last.pre = EmptyRegistry /\ EveryNameFailed) =>
     /\ last.ret = FALSE
     /\ Registry = EmptyRegistry

C5_Witness ==
  /\ IsLoad /\ last.pre = EmptyRegistry /\ EveryNameFailed
  /\ \E i, j \in DOMAIN param_list :
       /\ last.outc[i].ptr = NullPtr
       /\ last.outc[j].ptr # NullPtr /\ ~last.outc[j].init
  /\ Len(last.log) = 3

\* ---- C6 -----------------------------------------------------------------
\* C6: getLoadedNames is exactly the registered names, each once; a
\* loadPlugins appends the names it admitted, in configuration order, to
\* what was there; clearPlugins empties it; no other call changes it.
C6_LoadedNamesInAdmissionOrder ==
  /\ NoDup(getLoadedNamesOf(Registry))
  /\ Range(getLoadedNamesOf(Registry)) = DOMAIN plugins_
  /\ IsLoad => /\ getLoadedNamesOf(Registry) = last.pre.names_ \o AcceptedNames
               /\ AcceptedNames = Restrict(param_list, AdmittedPos, 1)
  /\ last.op = "clearPlugins" => getLoadedNamesOf(Registry) = <<>>
  /\ last.op \notin {"loadPlugins", "clearPlugins", "constructor"} =>
       getLoadedNamesOf(Registry) = last.pre.names_

C6_Witness ==
  /\ IsLoad /\ last.pre.names_ # <<>> /\ AdmittedPos # {} /\ FailedPos # {}
  /\ Len(names_) = 2

\* ---- C7 -----------------------------------------------------------------
\* The instance the callbacks accepted for name n: in the last call if that
\* was a loadPlugins that admitted n, else what was registered before it.
AcceptedInstance(n) ==
  IF IsLoad /\ \E k \in DOMAIN Accepts : Accepts[k].name = n
  THEN Accepts[CHOOSE k \in DOMAIN Accepts : Accepts[k].name = n].ptr
  ELSE IF last.op # "clearPlugins" /\ last.op # "constructor" /\ n \in DOMAIN last.pre.plugins_
       THEN last.pre.plugins_[n]
       ELSE NullPtr

\* C7: hasPlugin(name) is true iff name is a key of plugins_; getPlugin
\* returns the accepted instance of a name iff hasPlugin is true of it and
\* the null pointer otherwise.
C7_HasPluginAndGetPlugin ==
  /\ \A n \in Names :
       /\ hasPluginOf(Registry, n) <=> n \in DOMAIN plugins_
       /\ getPluginOf(Registry, n) = AcceptedInstance(n)
       /\ hasPluginOf(Registry, n) <=> getPluginOf(Registry, n) # NullPtr
  /\ last.op = "hasPlugin" => (last.ret <=> last.arg \in DOMAIN plugins_)
  /\ last.op = "getPlugin" => last.ret = AcceptedInstance(last.arg)

C7_Witness ==
  /\ last.op = "getPlugin" /\ last.ret # NullPtr
  /\ \E n \in Names : ~hasPluginOf(Registry, n)

\* ---- C8 -----------------------------------------------------------------
\* C8: clearPlugins empties the three containers, and the first loadPlugins
\* after it returns and builds what the same call (same configuration,
\* same callback answers) returns and builds on an empty registry.
C8_ClearThenLoadIsFresh ==
  /\ last.op = "clearPlugins" =>
       /\ getLoadedNamesOf(Registry) = <<>>
       /\ \A n \in Names : ~hasPluginOf(Registry, n)
       /\ plugins_type_ = EmptyMap
  /\ (IsLoad /\ last.cleared = "first") =>
       LET f == LoadPluginsOn(EmptyRegistry, param_list, param_type, last.outc) IN
       /\ last.ret = f.ret
       /\ last.log = f.log
       /\ plugins_ = f.plugins_
       /\ plugins_type_ = f.plugins_type_
       /\ names_ = f.names_

C8_Witness ==
  /\ IsLoad /\ last.cleared = "first" /\ last.ret = TRUE /\ Len(names_) = 2

\* ---- C9 -----------------------------------------------------------------
\* C9: the registry is empty after construction, and no call but
\* clearPlugins removes or changes an entry: every entry present before a
\* call is present after it with the same instance and type.
C9_EntriesPersistUntilClear ==
  /\ last.op = "constructor" => Registry = EmptyRegistry
  /\ last.op \notin {"clearPlugins", "constructor"} => Preserved(last.pre, Registry)

C9_Witness ==
  /\ IsLoad /\ last.pre.names_ # <<>> /\ AdmittedPos # {} /\ DuplicateHit

\* ---- C10 ----------------------------------------------------------------
ListsRegisteredName == \E i \in DOMAIN param_list : param_list[i] \in DOMAIN last.pre.plugins_

\* C10 as stated: a loadPlugins whose name list contains an
\* already-registered name returns false, calls no callback and leaves
\* the registry as it was.
C10_AsStated ==
  (IsLoad /\ ListsRegisteredName) =>
     /\ last.ret = FALSE
     /\ CallbackCalls = {}
     /\ Registry = last.pre

\* C10 amended: such a call returns false and ends in the duplicate abort
\* without removing or changing an entry; it calls no callback and admits
\* nothing only when no unregistered name precedes the first
\* already-registered one in the list (the names before it are processed
\* as usual).
C10_ReloadHitsDuplicate ==
  (IsLoad /\ ListsRegisteredName) =>
     /\ last.ret = FALSE
     /\ last.log[Len(last.log)].kind = "duplicate"
     /\ Preserved(last.pre, Registry)
     /\ param_list[1] \in DOMAIN last.pre.plugins_ =>
          /\ CallbackCalls = {}
          /\ Registry = last.pre
          /\ Len(last.log) = 1

C10_Witness ==
  /\ IsLoad /\ Len(param_list) = 2
  /\ param_list[1] \in DOMAIN last.pre.plugins_
  /\ param_list[2] \notin DOMAIN last.pre.plugins_
  /\ Registry = last.pre

\* ---- C11 ----------------------------------------------------------------
\* C11: whenever a call has returned (and after construction) the keys of
\* plugins_, the keys of plugins_type_ and the names in names_ are the
\* same set, and names_ holds no name twice.
C11_ViewsAgree ==
  /\ DOMAIN plugins_ = DOMAIN plugins_type_
  /\ DOMAIN plugins_ = Range(names_)
  /\ NoDup(names_)

C11_Witness ==
  /\ IsLoad /\ DuplicateHit /\ AdmittedPos # {} /\ last.pre = EmptyRegistry
  /\ DOMAIN plugins_type_ # {}

\* ---- C12 ----------------------------------------------------------------
\* Positions of the name list whose iteration ran, read off the log.
ReachedPos == {last.log[k].pos : k \in DOMAIN last.log}

\* Names registered when iteration d of the call started.
RegisteredBefore(d) ==
  DOMAIN last.pre.plugins_ \cup
    {Accepts[k].name : k \in {j \in DOMAIN Accepts : Accepts[j].pos < d}}

\* C12: a factory miss or an initializer failure only excludes that name:
\* unless a duplicate is met every position of the list is processed, each
\* processed position that is no duplicate is passed to the factory, and
\* the iteration stops early only at a position whose name is registered.
C12_OnlyDuplicateStopsTheLoop ==
  (IsLoad /\ param_list # <<>>) =>
     /\ ~DuplicateHit => ReachedPos = DOMAIN param_list
     /\ DuplicateHit =>
          LET d == last.log[Len(last.log)].pos IN
          /\ last.log[Len(last.log)].kind = "duplicate"
          /\ ReachedPos = 1 .. d
          /\ param_list[d] \in RegisteredBefore(d)
     /\ \A k \in DOMAIN last.log : last.log[k].kind = "duplicate" => k = Len(last.log)
     /\ \A i \in ReachedPos :
          \/ \E k \in DOMAIN last.log : last.log[k].pos = i /\ last.log[k].kind = "loadPlugin"
          \/ param_list[i] \in RegisteredBefore(i)

C12_Witness ==
  /\ IsLoad /\ Len(param_list) = 2 /\ 1 \in FailedPos /\ 2 \in AdmittedPos

\* ---- C13 ----------------------------------------------------------------
\* C13: the initializer is called only right after the factory returned an
\* instance for the same position, with that name and that instance, never
\* after a factory miss; the factory gets the type configured for the name
\* and only for a name that is not registered; the names a call adds are
\* exactly those the initializer accepted in it, each accepted once and
\* none registered before, so a registered name has had one successful
\* initializer call since the last clearPlugins.
C13_StepOrder ==
  IsLoad =>
     /\ \A k \in DOMAIN last.log :
          LET e == last.log[k] IN
          /\ e.kind = "initPlugin" =>
               /\ k > 1
               /\ last.log[k - 1].kind = "loadPlugin"
               /\ last.log[k - 1].pos = e.pos
               /\ last.log[k - 1].ptr = e.ptr
               /\ e.ptr # NullPtr
               /\ e.name = param_list[e.pos]
          /\ e.kind = "loadPlugin" =>
               /\ e.name = param_list[e.pos]
               /\ e.type = param_type[e.name]
               /\ e.name \notin RegisteredBefore(e.pos)
               /\ \A j \in DOMAIN last.log : (j < k) => last.log[j].pos < e.pos
     /\ DOMAIN plugins_ = DOMAIN last.pre.plugins_ \cup Range(AcceptedNames)
     /\ DOMAIN last.pre.plugins_ \cap Range(AcceptedNames) = {}
     /\ NoDup(AcceptedNames)
     /\ \A k \in DOMAIN Accepts : plugins_[Accepts[k].name] = Accepts[k].ptr

C13_Witness ==
  /\ IsLoad /\ Len(Accepts) = 1
  /\ \E k \in DOMAIN last.log : last.log[k].kind = "loadPlugin" /\ last.log[k].ptr = NullPtr
  /\ last.pre.names_ = <<>>

\* ---- C14 ----------------------------------------------------------------
\* C14: the type recorded for a name is the type that was configured and
\* passed to the factory in the call that admitted it; no later call but
\* clearPlugins changes it, also not a change of the configuration, and
\* getType returns it for a registered name.
C14_RecordedType ==
  /\ IsLoad =>
       \A k \in DOMAIN Accepts :
         /\ plugins_type_[Accepts[k].name] = Accepts[k].type
         /\ Accepts[k].type = param_type[Accepts[k].name]
         /\ \E j \in DOMAIN last.log :
              /\ last.log[j].kind = "loadPlugin" /\ last.log[j].pos = Accepts[k].pos
              /\ last.log[j].type = Accepts[k].type
  /\ last.op \notin {"clearPlugins", "constructor"} =>
       \A n \in DOMAIN last.pre.plugins_type_ :
         n \in DOMAIN plugins_type_ /\ plugins_type_[n] = last.pre.plugins_type_[n]
  /\ (last.op = "getType" /\ last.arg \in DOMAIN last.pre.plugins_type_) =>
       last.ret = last.pre.plugins_type_[last.arg]

C14_Witness ==
  /\ last.op = "getType" /\ last.arg \in DOMAIN plugins_type_
  /\ last.ret # param_type[last.arg]
  /\ \E n, m \in DOMAIN plugins_type_ : n # m /\ plugins_type_[n] = plugins_type_[m]

\* ---- C15 ----------------------------------------------------------------
IsRead ==
  \/ last.op \in {"getPlugin", "hasPlugin", "getLoadedNames"}
  \/ last.op = "getType" /\ last.arg \in DOMAIN last.pre.plugins_type_

\* C15: getPlugin, hasPlugin, getLoadedNames and getType of a registered
\* name leave the three containers as they were and call no callback.
C15_ReadsChangeNothing ==
  IsRead =>
     /\ Registry = last.pre
     /\ last.log = <<>>

C15_Witness ==
  /\ last.op = "getPlugin" /\ last.arg \notin DOMAIN plugins_ /\ last.ret = NullPtr
  /\ DOMAIN plugins_ # {}

\* ---- C16 ----------------------------------------------------------------
\* C16 as stated: at every intermediate step of loadPlugins and
\* clearPlugins a key of plugins_ is also a key of plugins_type_.
C16_AsStated == DOMAIN plugins_ \subseteq DOMAIN plugins_type_

\* C16 amended: a key of plugins_ is a key of plugins_type_ at every
\* intermediate step of clearPlugins and of loadPlugins except between the
\* insertion into plugins_ and the insertion into plugins_type_, where the
\* name being admitted, and only it, is a key of plugins_ alone.
C16_KeysExceptInsertWindow ==
  /\ frame.pc # "insert_type" => DOMAIN plugins_ \subseteq DOMAIN plugins_type_
  /\ frame.pc = "insert_type" =>
       /\ DOMAIN plugins_ \ DOMAIN plugins_type_ = {frame.name}
       /\ frame.op = "loadPlugins"

C16_Witness ==
  /\ frame.op = "clearPlugins" /\ frame.i = 2
  /\ DOMAIN plugins_ = {} /\ DOMAIN plugins_type_ # {}
  /\ last.op = "hasPlugin" /\ last.ret = TRUE

\* ---- C17 ----------------------------------------------------------------
\* The simulator before the callback that has returned.
SimPre == last.sim_pre

\* The pose a pose update at time t makes of simulator s.
PoseAt(s, t) ==
  IF s.config_.is_robot_stuck THEN s.trf_parent_robot_.transform
  ELSE Compose(s.trf_parent_robot_.transform,
               Motion(s.current_velocity_, t - s.trf_parent_robot_.stamp))

VelocityAccepted ==
  last.op = "velocityCallback" /\ last.req.frame_id = SimPre.config_.robot_frame_id

\* C17: an accepted velocityCallback or setStateCallback first moves the
\* pose over the time since the last update with the velocity held until
\* then (and publishes that), and only then stores the new velocity; what
\* setStateCallback integrates with the new velocity is only the time
\* after it stored the request.
C17_OldVelocityUntilNow ==
  /\ VelocityAccepted =>
       /\ sim.trf_parent_robot_ = [stamp |-> SimPre.clock,
                                   transform |-> PoseAt(SimPre, SimPre.clock)]
       /\ sim.current_velocity_ = last.req.twist
       /\ Len(last.published) = 1
       /\ last.published[1].transform = PoseAt(SimPre, SimPre.clock)
  /\ (last.op = "setStateCallback" /\ last.stored) =>
       LET v == IF last.req.set_velocity THEN last.req.twist ELSE SimPre.current_velocity_
           set == [SimPre EXCEPT !.current_velocity_ = v,
                                 !.trf_parent_robot_ = [stamp |-> SimPre.clock,
                                                        transform |-> last.req.transform]]
       IN  /\ Len(last.published) = 2
           /\ last.published[1].stamp = SimPre.clock
           /\ last.published[1].transform = PoseAt(SimPre, SimPre.clock)
           /\ sim.current_velocity_ = v
           /\ sim.trf_parent_robot_ = [stamp |-> sim.clock,
                                       transform |-> PoseAt(set, sim.clock)]

C17_Witness ==
  /\ VelocityAccepted
  /\ ~SimPre.config_.is_robot_stuck
  /\ SimPre.clock > SimPre.trf_parent_robot_.stamp
  /\ SimPre.current_velocity_ # ZeroTwist
  /\ last.req.twist = ZeroTwist
  /\ sim.trf_parent_robot_.transform # SimPre.trf_parent_robot_.transform

\* ---- C18 ----------------------------------------------------------------
\* C18 as stated: while is_robot_stuck is true a pose update changes only
\* the timestamp of the stored transform, and the time the robot spent
\* stuck adds no displacement once is_robot_stuck is false again: a pose
\* update moves the pose by the ticks that were not spent stuck.
C18_AsStated ==
  last.op = "continuouslyUpdateRobotPose" =>
     /\ SimPre.config_.is_robot_stuck =>
          /\ sim.trf_parent_robot_.transform = SimPre.trf_parent_robot_.transform
          /\ sim.trf_parent_robot_.stamp = SimPre.clock
     /\ ~SimPre.config_.is_robot_stuck =>
          sim.trf_parent_robot_.transform =
            Compose(SimPre.trf_parent_robot_.transform,
                    Motion(SimPre.current_velocity_,
                           SimPre.clock - SimPre.trf_parent_robot_.stamp - SimPre.stuck_ticks))

\* ---- C19 ----------------------------------------------------------------
VelocityRejected ==
  last.op = "velocityCallback" /\ last.req.frame_id # SimPre.config_.robot_frame_id

StateRejected ==
  /\ last.op = "setStateCallback"
  /\ \/ last.req.transform_frame # SimPre.config_.parent_frame_id
     \/ last.req.set_velocity /\ last.req.velocity_frame # SimPre.config_.robot_frame_id

\* C19: a velocity message or a state request in the wrong frame changes
\* nothing: the stored transform, its timestamp and the current velocity
\* are as before and nothing is published.
C19_WrongFrameChangesNothing ==
  (VelocityRejected \/ StateRejected) =>
     /\ sim.trf_parent_robot_ = SimPre.trf_parent_robot_
     /\ sim.current_velocity_ = SimPre.current_velocity_
     /\ sim = SimPre
     /\ last.published = <<>>

C19_Witness ==
  /\ VelocityRejected
  /\ SimPre.clock > SimPre.trf_parent_robot_.stamp
  /\ SimPre.current_velocity_ # ZeroTwist /\ last.req.twist # SimPre.current_velocity_
  /\ ~SimPre.config_.is_robot_stuck

\* ---- C20 ----------------------------------------------------------------
\* C20 as stated: after setStateCallback, called with success = false in
\* the response, success is true iff the request was stored.
C20_AsStated ==
  last.op = "setStateCallback" => (last.response.success <=> last.stored)
====
